---- MODULE Spec2Model ----
(***************************************************************************)
(* daggo: a hierarchy of single-parent nodes kept in a SQL store.          *)
(*                                                                         *)
(* The state is the contents of the two relations the statements of        *)
(* dagNode.go name: `dag` (INSERT lines 152 and 173, every SELECT of the   *)
(* read operations, the DELETE of DeleteNodeAndDescendants) and `DagNode`  *)
(* (the SELECT, DELETE and UPDATE of DeleteChildNode, lines 201-232).      *)
(* Every exported method is one action; `last` records the call that was   *)
(* made, the store it was made on and what it returned.                    *)
(*                                                                         *)
(* SQL is modelled by what the statements say: a comparison with NULL is   *)
(* never true, a Get takes some row of the result (no ORDER BY: any row),  *)
(* a statement that cannot be planned is an error.                         *)
(***************************************************************************)
EXTENDS Integers, Sequences, FiniteSets, TLC

VARIABLES dag, DagNode, last, walk, inflight, assembly

vars == <<dag, DagNode, last, walk, inflight, assembly>>

\* Largest node id the callers use.
MaxId == 3

Ids == 1..MaxId

(***************************************************************************)
(* Values                                                                  *)
(***************************************************************************)

\* sql.NullInt64{Valid: false}: a NULL column.
NullInt64 == [Int64 |-> 0, Valid |-> FALSE]

\* sql.NullInt64{Int64: v, Valid: true}.
ValidInt64(v) == [Int64 |-> v, Valid |-> TRUE]

\* A []int that is nil (a NULL ChildIDs column scans to a nil slice).
NilSlice == [IsNil |-> TRUE, Elems |-> <<>>]

\* A non-nil []int.
Slice(s) == [IsNil |-> FALSE, Elems |-> s]

\* A row of `dag`. child_id is a column the queries read (lines 44, 81, 109,
\* 273, 276) and no INSERT or UPDATE writes.
\* ctid is the row's physical identity in the relation (the store's own column,
\* 0 for the first row of an id): it tells two rows of equal columns apart.
DagRow(id, parent_id, root_id) ==
    [id |-> id, parent_id |-> parent_id, root_id |-> root_id, child_id |-> NullInt64,
     ctid |-> NullInt64.Int64]

\* The values the code returns as error (nil is success); a panic is a fault
\* that unwinds the caller, not an error value.
ErrNil            == "nil"
ErrAlreadyExists  == "node with ID already exists"
ErrGetNode        == "failed to get node"
ErrHasChildren    == "cannot delete node with children"
ErrGetParent      == "failed to get parent node"
ErrNoRoot         == "no root node found for node"
ErrNoParent       == "node has no parent"
ErrSQL            == "sql error"
Panic             == "panic"

\* What became of the transaction a call began.
TxNone       == "none"
TxCommitted  == "committed"
TxRolledBack == "rolled back"
TxOpen       == "open"

(***************************************************************************)
(* Helpers                                                                 *)
(***************************************************************************)

RECURSIVE SortById(_)
\* ORDER BY id ASC.
SortById(S) ==
    IF S = {} THEN <<>>
    ELSE LET m == CHOOSE r \in S : \A q \in S : r.id <= q.id
         IN  <<m>> \o SortById(S \ {m})

Range(s) == {s[i] : i \in DOMAIN s}

IdsOf(tbl) == {r.id : r \in tbl}

\* What a call hands back: the error, the rows returned, both relations after
\* the call and the fate of the transaction the call began.
Result(err, nodes, d, n, tx) ==
    [err |-> err, nodes |-> nodes, dag |-> d, DagNode |-> n, tx |-> tx]

(***************************************************************************)
(* Read operations (dagNode.go)                                            *)
(***************************************************************************)

\* SELECT * FROM dag WHERE id = $1; sql.ErrNoRows is (nil, nil).
GetNodeByID(tbl, nodeID) ==
    LET rows == {r \in tbl : r.id = nodeID}
    IN  IF rows = {} THEN {<<>>} ELSE {<<r>> : r \in rows}

\* SELECT * FROM dag WHERE parent_id = $1 ORDER BY id ASC.
GetNextChildrenNodes(tbl, nodeID) ==
    SortById({r \in tbl : r.parent_id.Valid /\ r.parent_id.Int64 = nodeID})

\* SELECT * FROM dag WHERE child_id = $1; sql.ErrNoRows is (nil, nil).
GetParentNode(tbl, nodeID) ==
    LET rows == {r \in tbl : r.child_id.Valid /\ r.child_id.Int64 = nodeID}
    IN  IF rows = {} THEN {<<>>} ELSE {<<r>> : r \in rows}

\* SELECT * FROM dag WHERE root_id = $1, keyed by the node id passed in;
\* sql.ErrNoRows is the error "no root node found for node".
GetRootNode(tbl, nodeID) ==
    LET rows == {r \in tbl : r.root_id = nodeID}
    IN  IF rows = {} THEN {[err |-> ErrNoRoot, nodes |-> <<>>]}
        ELSE {[err |-> ErrNil, nodes |-> <<r>>] : r \in rows}

\* The statement's outer SELECT is `SELECT DISTINCT d.* FROM cte JOIN
\* unnest(cte.child_id) AS c ON d.id = c`: its FROM clause introduces cte and c
\* only, so the reference to d cannot be resolved and the store rejects the
\* statement whatever the table holds; db.Select returns that error.
GetDescendants(tbl, nodeID) ==
    [err |-> ErrSQL, nodes |-> <<>>]

\* Same outer SELECT over d (lines 115-117): rejected by the store.
GetAncestors(tbl, nodeID) ==
    [err |-> ErrSQL, nodes |-> <<>>]

(***************************************************************************)
(* Read operations (daggo.go)                                              *)
(***************************************************************************)

RECURSIVE DescendantsCte(_, _)
\* WITH RECURSIVE cte AS (SELECT * FROM dag WHERE id = $1 UNION ALL
\* SELECT dag.* FROM dag JOIN cte ON dag.parent_id = cte.id): the rows of the
\* working table `work` and of every later iteration.
DescendantsCte(tbl, work) ==
    IF work = {} THEN {}
    ELSE work \cup
         DescendantsCte(tbl, {r \in tbl : r.parent_id.Valid /\
                                   \E w \in work : r.parent_id.Int64 = w.id})

\* daggo.go GetDescendants: SELECT * FROM cte ORDER BY id ASC.
GetDescendants_daggo(tbl, nodeID) ==
    [err |-> ErrNil,
     nodes |-> SortById(DescendantsCte(tbl, {r \in tbl : r.id = nodeID}))]

RECURSIVE ParentsCte(_, _)
\* WITH RECURSIVE parents AS (SELECT * FROM dag WHERE child_id = $1 UNION
\* SELECT dag.* FROM dag INNER JOIN parents ON dag.id = parents.parent_id):
\* UNION drops the rows already found, so `seen` only grows.
ParentsCte(tbl, seen) ==
    LET next == {r \in tbl : \E w \in seen :
                    w.parent_id.Valid /\ r.id = w.parent_id.Int64}
    IN  IF next \subseteq seen THEN seen ELSE ParentsCte(tbl, seen \cup next)

\* daggo.go GetParents: rows ORDER BY id ASC; no row is the error
\* "node with ID %d has no parent".
GetParents(tbl, nodeID) ==
    LET base == {r \in tbl : r.child_id.Valid /\ r.child_id.Int64 = nodeID}
        rows == ParentsCte(tbl, base)
    IN  IF rows = {} THEN [err |-> ErrNoParent, nodes |-> <<>>]
        ELSE [err |-> ErrNil, nodes |-> SortById(rows)]

(***************************************************************************)
(* Mutations (dagNode.go)                                                  *)
(***************************************************************************)

\* AddRootNode with the existence check of lines 164-170 left out.
AddRootNodeUnchecked(d, n, id) ==
    {Result(ErrNil, <<>>, d \cup {DagRow(id, NullInt64, id)}, n, TxNone)}

\* AddRootNode writing VALUES ($1, NULL, NULL): the root_id left out.
AddRootNodeNullRoot(d, n, id) ==
    {IF existingNode # <<>>
        THEN Result(ErrAlreadyExists, <<>>, d, n, TxNone)
        ELSE Result(ErrNil, <<>>, d \cup {DagRow(id, NullInt64, NullInt64.Int64)}, n, TxNone)
     : existingNode \in GetNodeByID(d, id)}

\* AddRootNode: "already exists" if GetNodeByID finds the id, else
\* INSERT INTO dag (id, parent_id, root_id) VALUES ($1, NULL, $1).
AddRootNode(d, n, id) ==
    {IF existingNode # <<>>
        THEN Result(ErrAlreadyExists, <<>>, d, n, TxNone)
        ELSE Result(ErrNil, <<>>, d \cup {DagRow(id, NullInt64, id)}, n, TxNone)
     : existingNode \in GetNodeByID(d, id)}

\* AddChildNode with the parent lookup of lines 145-149 left out: the row is
\* inserted under whatever parentID names, with that id as its root.
AddChildNodeUnlooked(d, n, id, parentID) ==
    {IF existingNode # <<>>
        THEN Result(ErrAlreadyExists, <<>>, d, n, TxNone)
        ELSE Result(ErrNil, <<>>,
                    d \cup {DagRow(id, ValidInt64(parentID), parentID)}, n, TxNone)
     : existingNode \in GetNodeByID(d, id)}

\* AddChildNode: "already exists" if GetNodeByID finds the id; GetParentNode
\* (parentID) is the row whose child_id is parentID, and when there is none it
\* is (nil, nil), so parentNode.RootID on line 149 dereferences nil and the
\* call panics; else INSERT INTO dag (id, parent_id, root_id) VALUES ($1, $2,
\* parentNode.RootID).
AddChildNode(d, n, id, parentID) ==
    UNION {IF existingNode # <<>>
              THEN {Result(ErrAlreadyExists, <<>>, d, n, TxNone)}
              ELSE {IF parentNode = <<>>
                       THEN Result(Panic, <<>>, d, n, TxNone)
                       ELSE Result(ErrNil, <<>>,
                                   d \cup {DagRow(id, ValidInt64(parentID),
                                                  parentNode[1].root_id)},
                                   n, TxNone)
                    : parentNode \in GetParentNode(d, parentID)}
           : existingNode \in GetNodeByID(d, id)}

\* for _, childID := range parent.ChildIDs { if childID != nodeId { append } }
RECURSIVE WithoutChild(_, _)
WithoutChild(childIDs, nodeId) ==
    IF childIDs = <<>> THEN <<>>
    ELSE (IF Head(childIDs) # nodeId THEN <<Head(childIDs)>> ELSE <<>>)
         \o WithoutChild(Tail(childIDs), nodeId)

\* DeleteChildNode, every statement of it against the relation DagNode.
\*   201-204  tx.Get(... FROM DagNode WHERE ID = $1): no row is an error, and
\*            the deferred function rolls back because err is set;
\*   206-208  a non-nil ChildIDs returns "cannot delete node with children"
\*            without assigning err, so the deferred function sees err == nil
\*            and neither rolls back nor commits;
\*   211      DELETE FROM DagNode WHERE ID = $1;
\*   217-223  the parent row, when ParentID is valid; no row is an error;
\*   226      make([]int, 0, len(parent.ChildIDs)-1) panics on an empty
\*            ChildIDs (capacity -1); recover rolls back and panics again;
\*   227-232  UPDATE DagNode SET ChildIDs = the list without nodeId;
\*   239      Commit.
DeleteChildNode(d, n, nodeId) ==
    LET rows == {r \in n : r.ID = nodeId}
    IN  IF rows = {} THEN {Result(ErrGetNode, <<>>, d, n, TxRolledBack)}
        ELSE UNION {
          IF ~node.ChildIDs.IsNil \/ Len(node.ChildIDs.Elems) > 0
            THEN {Result(ErrHasChildren, <<>>, d, n, TxOpen)}
          ELSE LET deleted == {r \in n : r.ID # nodeId}
               IN  IF ~node.ParentID.Valid
                     THEN {Result(ErrNil, <<>>, d, deleted, TxCommitted)}
                   ELSE LET parents == {r \in deleted : r.ID = node.ParentID.Int64}
                        IN  IF parents = {}
                              THEN {Result(ErrGetParent, <<>>, d, n, TxRolledBack)}
                            ELSE {IF Len(parent.ChildIDs.Elems) = 0
                                    THEN Result(Panic, <<>>, d, n, TxRolledBack)
                                    ELSE Result(ErrNil, <<>>, d,
                                           {IF r.ID = parent.ID
                                              THEN [r EXCEPT !.ChildIDs =
                                                     Slice(WithoutChild(parent.ChildIDs.Elems, nodeId))]
                                              ELSE r : r \in deleted},
                                           TxCommitted)
                                  : parent \in parents}
          : node \in rows}

RECURSIVE DeleteCte(_, _)
\* WITH RECURSIVE cte AS (SELECT child_id FROM dag WHERE parent_id = $1
\* UNION ALL SELECT dag.child_id FROM dag JOIN cte ON dag.parent_id =
\* any(cte.child_id)): the rows whose child_id the cte collects.
DeleteCte(tbl, work) ==
    IF work = {} THEN {}
    ELSE work \cup
         DeleteCte(tbl, {r \in tbl : r.parent_id.Valid /\
                            \E w \in work : w.child_id.Valid /\
                                            r.parent_id.Int64 = w.child_id.Int64})

\* DELETE FROM dag WHERE child_id @> (SELECT array_agg(child_id) FROM cte):
\* array_agg over no row is NULL, and a NULL child_id contains nothing.
DeletedRows(tbl, nodeID) ==
    LET cte == DeleteCte(tbl, {r \in tbl : r.parent_id.Valid /\
                                          r.parent_id.Int64 = nodeID})
    IN  {r \in tbl : /\ cte # {}
                     /\ r.child_id.Valid
                     /\ \A w \in cte : w.child_id.Valid /\
                                       w.child_id.Int64 = r.child_id.Int64}

\* DeleteNodeAndDescendants: begin, the recursive DELETE, commit, return nil.
\* The statement names no row by id = $1 and there is no lookup of nodeID.
DeleteNodeAndDescendants(d, n, nodeID) ==
    {Result(ErrNil, <<>>, d \ DeletedRows(d, nodeID), n, TxCommitted)}

(***************************************************************************)
(* The state machine: one action per exported method                       *)
(***************************************************************************)

\* The zero value of an int argument a call does not take.
NoArg == NullInt64.Int64

\* The record of a call: its name and arguments, the store it ran on (pre),
\* the error and rows it returned and the fate of its transaction.
Call(op, id, parent, err, nodes, tx) ==
    [op |-> op, id |-> id, parent |-> parent, err |-> err, nodes |-> nodes,
     tx |-> tx, pre |-> [dag |-> dag, DagNode |-> DagNode]]

\* No recursive query is being evaluated.
WalkIdle == [pc |-> "idle"]

\* No call is part-way through its statements.
InflightIdle == [pc |-> "idle"]

\* Nothing has been handed to the tree assembler.
AssemblyIdle == [pc |-> "idle"]

\* A mutation: the store becomes what the call left.
Mutate(op, id, parent, res) ==
    /\ UNCHANGED <<walk, inflight, assembly>>
    /\ dag' = res.dag
    /\ DagNode' = res.DagNode
    /\ last' = Call(op, id, parent, res.err, res.nodes, res.tx)

\* A read: the store is left alone.
Query(op, id, err, nodes) ==
    /\ UNCHANGED <<dag, DagNode, walk, inflight, assembly>>
    /\ last' = Call(op, id, NoArg, err, nodes, TxNone)

\* NewDaggo connects to the store; nothing has been inserted through it.
Init ==
    /\ dag = {}
    /\ DagNode = {}
    /\ last = [op |-> "NewDaggo", id |-> NoArg, parent |-> NoArg, err |-> ErrNil,
               nodes |-> <<>>, tx |-> TxNone,
               pre |-> [dag |-> {}, DagNode |-> {}]]
    /\ walk = WalkIdle
    /\ inflight = InflightIdle
    /\ assembly = AssemblyIdle

CallAddRootNode ==
    \E id \in Ids : \E res \in AddRootNode(dag, DagNode, id) :
        Mutate("AddRootNode", id, NoArg, res)

CallAddChildNode ==
    \E id \in Ids, parentID \in Ids : \E res \in AddChildNode(dag, DagNode, id, parentID) :
        Mutate("AddChildNode", id, parentID, res)

CallDeleteChildNode ==
    \E id \in Ids : \E res \in DeleteChildNode(dag, DagNode, id) :
        Mutate("DeleteChildNode", id, NoArg, res)

CallDeleteNodeAndDescendants ==
    \E id \in Ids : \E res \in DeleteNodeAndDescendants(dag, DagNode, id) :
        Mutate("DeleteNodeAndDescendants", id, NoArg, res)

CallGetNodeByID ==
    \E id \in Ids : \E node \in GetNodeByID(dag, id) :
        Query("GetNodeByID", id, ErrNil, node)

CallGetNextChildrenNodes ==
    \E id \in Ids :
        Query("GetNextChildrenNodes", id, ErrNil, GetNextChildrenNodes(dag, id))

CallGetParentNode ==
    \E id \in Ids : \E node \in GetParentNode(dag, id) :
        Query("GetParentNode", id, ErrNil, node)

CallGetRootNode ==
    \E id \in Ids : \E res \in GetRootNode(dag, id) :
        Query("GetRootNode", id, res.err, res.nodes)

CallGetDescendants ==
    \E id \in Ids :
        LET res == GetDescendants(dag, id)
        IN  Query("GetDescendants", id, res.err, res.nodes)

CallGetAncestors ==
    \E id \in Ids :
        LET res == GetAncestors(dag, id)
        IN  Query("GetAncestors", id, res.err, res.nodes)

CallGetDescendants_daggo ==
    \E id \in Ids :
        LET res == GetDescendants_daggo(dag, id)
        IN  Query("GetDescendants_daggo", id, res.err, res.nodes)

CallGetParents ==
    \E id \in Ids :
        LET res == GetParents(dag, id)
        IN  Query("GetParents", id, res.err, res.nodes)

Next ==
    \/ CallAddRootNode
    \/ CallAddChildNode
    \/ CallDeleteChildNode
    \/ CallDeleteNodeAndDescendants
    \/ CallGetNodeByID
    \/ CallGetNextChildrenNodes
    \/ CallGetParentNode
    \/ CallGetRootNode
    \/ CallGetDescendants_daggo
    \/ CallGetParents
    \/ CallGetDescendants
    \/ CallGetAncestors

Spec == Init /\ [][Next]_vars

(***************************************************************************)
(* A store that already holds rows when NewDaggo connects to it            *)
(***************************************************************************)

\* The most rows the store holds when the connection is opened.
MaxStored == 2

\* The hop counter of a recursive query stops counting here.
MaxHops == MaxId + 1

\* The ids of the rows held at connection; the ids above them are free.
StoredIds == 1..MaxStored

Nullable(S) == {NullInt64} \cup {ValidInt64(i) : i \in S}

\* Rows of dag whose parent_id names no row or a stored one and whose
\* child_id is anything; root_id, which no recursive statement reads, is the
\* row's own id as AddRootNode writes it.
StoredDagRows ==
    {[DagRow(id, p, id) EXCEPT !.child_id = c] :
        id \in StoredIds, p \in Nullable(StoredIds), c \in Nullable(Ids)}

\* Rows of DagNode: ChildIDs scanned as nil, as empty or as one id.
StoredDagNodeRows ==
    {[ID |-> id, ParentID |-> p, ChildIDs |-> c, RootID |-> id] :
        id \in StoredIds, p \in Nullable(StoredIds),
        c \in {NilSlice, Slice(<<>>)} \cup {Slice(<<k>>) : k \in StoredIds}}

RECURSIVE DagStores(_)
\* The sets of at most k rows of dag with pairwise distinct ids.
DagStores(k) ==
    IF k = 0 THEN {{}}
    ELSE LET smaller == DagStores(k - 1)
         IN  smaller \cup
             UNION {{T \cup {r} : r \in {q \in StoredDagRows : q.id \notin IdsOf(T)}}
                    : T \in smaller}

RECURSIVE DagNodeStores(_)
\* The sets of at most k rows of DagNode with pairwise distinct IDs.
DagNodeStores(k) ==
    IF k = 0 THEN {{}}
    ELSE LET smaller == DagNodeStores(k - 1)
         IN  smaller \cup
             UNION {{T \cup {r} : r \in {q \in StoredDagNodeRows :
                                          \A t \in T : t.ID # q.ID}}
                    : T \in smaller}

\* The recursive term of the DELETE's cte (lines 268-271) joins parent_id to
\* the child_id collected so far with UNION ALL; it comes to an end exactly
\* when no set of rows feeds itself through that join.
NoCteLoop(tbl) ==
    ~\E T \in SUBSET tbl :
        /\ T # {}
        /\ \A r \in T : \E w \in T :
              r.parent_id.Valid /\ w.child_id.Valid /\
              r.parent_id.Int64 = w.child_id.Int64

\* NewDaggo connects to a store that holds rows in one of its relations.
InitStored ==
    /\ \/ dag \in {S \in DagStores(MaxStored) : NoCteLoop(S)} /\ DagNode = {}
       \/ dag = {} /\ DagNode \in DagNodeStores(MaxStored)
    /\ last = [op |-> "NewDaggo", id |-> NoArg, parent |-> NoArg, err |-> ErrNil,
               nodes |-> <<>>, tx |-> TxNone,
               pre |-> [dag |-> dag, DagNode |-> DagNode]]
    /\ walk = WalkIdle
    /\ inflight = InflightIdle
    /\ assembly = AssemblyIdle

\* daggo.go GetDescendants, the evaluation of its recursive query one
\* iteration at a time. The non-recursive term (id = $1) is the first working
\* table; nothing has been emitted yet.
WalkBegin ==
    /\ walk.pc = "idle"
    /\ \E id \in Ids :
          walk' = [pc |-> "running", id |-> id,
                   work |-> {r \in dag : r.id = id}, seen |-> {}, hops |-> 0]
    /\ UNCHANGED <<dag, DagNode, last, inflight, assembly>>

\* One iteration of the recursive term: the working table is emitted (UNION
\* ALL keeps every row, found before or not) and replaced by the rows of dag
\* whose parent_id is the id of one of its rows.
WalkStep ==
    /\ walk.pc = "running"
    /\ walk.work # {}
    /\ walk' = [walk EXCEPT
                  !.seen = walk.seen \cup walk.work,
                  !.work = {r \in dag : r.parent_id.Valid /\
                                \E w \in walk.work : r.parent_id.Int64 = w.id},
                  !.hops = IF walk.hops < MaxHops THEN walk.hops + 1 ELSE MaxHops]
    /\ UNCHANGED <<dag, DagNode, last, inflight, assembly>>

\* The working table is empty: SELECT * FROM cte ORDER BY id ASC is returned.
WalkReturn ==
    /\ walk.pc = "running"
    /\ walk.work = {}
    /\ walk' = WalkIdle
    /\ last' = Call("GetDescendants_daggo", walk.id, NoArg, ErrNil,
                    SortById(walk.seen), TxNone)
    /\ UNCHANGED <<dag, DagNode, inflight, assembly>>

\* The caller is blocked while its query runs.
CallStored ==
    /\ walk.pc = "idle"
    /\ \/ CallAddRootNode
       \/ CallAddChildNode
       \/ CallDeleteChildNode
       \/ CallDeleteNodeAndDescendants
       \/ CallGetNodeByID
       \/ CallGetNextChildrenNodes
       \/ CallGetParentNode
       \/ CallGetRootNode
       \/ CallGetParents
       \/ CallGetDescendants
       \/ CallGetAncestors

NextStored ==
    \/ CallStored
    \/ WalkBegin
    \/ WalkStep
    \/ WalkReturn

SpecStored == InitStored /\ [][NextStored]_vars

(***************************************************************************)
(* The tree assembler                                                      *)
(***************************************************************************)

\* The assembler's failures.
MultipleRoots == "multiple roots"
NoRoot == "no root"
DanglingParent == "dangling parent"

\* A node as the assembler reads it: its id and its optional parent.
AssemblyNode(id, parent_id) == [id |-> id, parent_id |-> parent_id]

\* type Dag struct { Root *DagNode; Nodes map[int][]*DagNode }: the root and,
\* for every id of the index, the list of the nodes whose parent it is.
Dag(root, nodes) == [err |-> ErrNil, Root |-> root, Nodes |-> nodes]

\* The assembler without its linking step: every children list stays empty.
AssembleUnlinked(nodes) ==
    LET roots == {m \in nodes : ~m.parent_id.Valid}
    IN  IF Cardinality(roots) > 1 THEN [err |-> MultipleRoots]
        ELSE IF roots = {} THEN [err |-> NoRoot]
        ELSE Dag(CHOOSE m \in roots : TRUE, [i \in IdsOf(nodes) |-> <<>>])

\* The assembler: index by id; more than one parentless node is MultipleRoots
\* and none is NoRoot; a parent that is not in the index is DanglingParent;
\* else every node is appended to the children of its parent and the root is
\* returned with the linked index.
Assemble(nodes) ==
    LET index == IdsOf(nodes)
        roots == {m \in nodes : ~m.parent_id.Valid}
    IN  IF Cardinality(roots) > 1 THEN [err |-> MultipleRoots]
        ELSE IF roots = {} THEN [err |-> NoRoot]
        ELSE IF \E m \in nodes : m.parent_id.Valid /\ m.parent_id.Int64 \notin index
               THEN [err |-> DanglingParent]
        ELSE Dag(CHOOSE m \in roots : TRUE,
                 [i \in index |->
                    SortById({m \in nodes : m.parent_id.Valid /\ m.parent_id.Int64 = i})])

\* The collections of nodes with pairwise distinct ids handed to the assembler.
AssemblyInputs ==
    UNION {{{AssemblyNode(i, f[i]) : i \in S} : f \in [S -> Nullable(Ids)]}
           : S \in SUBSET Ids}

\* A collection of nodes is about to be assembled; the store is not involved.
InitAssemble ==
    /\ dag = {}
    /\ DagNode = {}
    /\ last = [op |-> "NewDaggo", id |-> NoArg, parent |-> NoArg, err |-> ErrNil,
               nodes |-> <<>>, tx |-> TxNone,
               pre |-> [dag |-> {}, DagNode |-> {}]]
    /\ walk = WalkIdle
    /\ inflight = InflightIdle
    /\ \E nodes \in AssemblyInputs : assembly = [pc |-> "input", nodes |-> nodes]

CallAssemble ==
    /\ assembly.pc = "input"
    /\ assembly' = [pc |-> "done", nodes |-> assembly.nodes,
                    out |-> Assemble(assembly.nodes)]
    /\ UNCHANGED <<dag, DagNode, last, walk, inflight>>

NextAssemble == CallAssemble

SpecAssemble == InitAssemble /\ [][NextAssemble]_vars

(***************************************************************************)
(* Vocabulary of the properties                                            *)
(***************************************************************************)

\* The node store as the callers know it: the relation nodes are inserted in.
Exists(tbl, id) == id \in IdsOf(tbl)

HasChild(tbl, id) == \E r \in tbl : r.parent_id.Valid /\ r.parent_id.Int64 = id

\* Both relations are as the call found them.
StoreUnchanged == dag = last.pre.dag /\ DagNode = last.pre.DagNode

\* An error that reports an absent node (never a panic, never success).
IsNotFound(err) == err \in {ErrGetNode, ErrGetParent, ErrNoRoot, ErrNoParent}

RECURSIVE Below(_, _)
\* The rows whose parent chain passes through one of the ids in `top`.
Below(tbl, top) ==
    LET kids == {r \in tbl : r.parent_id.Valid /\ r.parent_id.Int64 \in top}
    IN  IF kids = {} THEN {} ELSE kids \cup Below(tbl \ kids, IdsOf(kids))

RECURSIVE ChainUp(_, _, _)
\* The ids met walking parent_id upwards from id, nearest first, in at most n hops.
ChainUp(tbl, id, n) ==
    LET me == {r \in tbl : r.id = id /\ r.parent_id.Valid}
    IN  IF n = 0 \/ me = {} THEN <<>>
        ELSE LET p == (CHOOSE r \in me : TRUE).parent_id.Int64
             IN  <<p>> \o ChainUp(tbl, p, n - 1)

\* The ids of the rows a call returned, in the order returned.
ReturnedIds == [i \in DOMAIN last.nodes |-> last.nodes[i].id]

\* The previous call was an AddChild(c, p) that the contract obliges to
\* succeed: c was not in the store and p was.
AfterAddChild(c, p) ==
    /\ last.op = "AddChildNode" /\ last.id = c /\ last.parent = p
    /\ ~Exists(last.pre.dag, c)
    /\ Exists(last.pre.dag, p)

(***************************************************************************)
(* C1..C10                                                                 *)
(***************************************************************************)

\* C1: AddRoot(id) on a store that holds id fails with AlreadyExists and leaves
\* the store as it was; on a store that does not hold id it returns nil and the
\* store gains exactly one row, with that id, a NULL parent and root_id = id,
\* every other row unchanged.
C1_AddRoot ==
    last.op = "AddRootNode" =>
        IF Exists(last.pre.dag, last.id)
          THEN last.err = ErrAlreadyExists /\ StoreUnchanged
          ELSE /\ last.err = ErrNil
               /\ last.pre.dag \subseteq dag
               /\ DagNode = last.pre.DagNode
               /\ \E r \in dag :
                     /\ dag \ last.pre.dag = {r}
                     /\ r.id = last.id
                     /\ ~r.parent_id.Valid
                     /\ r.root_id = last.id

\* A second AddRoot of an id was refused while another root was stored too.
C1_Witness ==
    /\ last.op = "AddRootNode"
    /\ last.err = ErrAlreadyExists
    /\ Exists(dag, last.id)
    /\ Cardinality(dag) >= 2

\* C2: AddChild(id, parentId) with id absent and parentId present (a root
\* included) returns nil and inserts exactly one row, whose parent is parentId
\* and whose root_id is the parent's root_id; no other row changes.
C2_AddChildInserts ==
    (/\ last.op = "AddChildNode"
     /\ ~Exists(last.pre.dag, last.id)
     /\ Exists(last.pre.dag, last.parent)) =>
        /\ last.err = ErrNil
        /\ last.pre.dag \subseteq dag
        /\ DagNode = last.pre.DagNode
        /\ \E r \in dag : \E p \in last.pre.dag :
              /\ dag \ last.pre.dag = {r}
              /\ p.id = last.parent
              /\ r.id = last.id
              /\ r.parent_id = ValidInt64(last.parent)
              /\ r.root_id = p.root_id

\* C3: AddChild(id, parentId) with id absent and parentId absent fails with a
\* not-found error (an error value, not a panic) and leaves the store as it was.
C3_AddChildNoParent ==
    (/\ last.op = "AddChildNode"
     /\ ~Exists(last.pre.dag, last.id)
     /\ ~Exists(last.pre.dag, last.parent)) =>
        IsNotFound(last.err) /\ StoreUnchanged

\* C4: DeleteLeaf of a node that has a child fails with HasChildren and leaves
\* the store as it was: for a stored node with a stored child, and for the parent
\* p right after an AddChild(c, p) the contract obliges to succeed.
C4_DeleteLeafWithChild ==
    [][(/\ last'.op = "DeleteChildNode"
        /\ \/ HasChild(dag, last'.id) /\ Exists(dag, last'.id)
           \/ AfterAddChild(last.id, last'.id))
       => (last'.err = ErrHasChildren /\ dag' = dag /\ DagNode' = DagNode)]_vars

\* C5: DeleteLeaf of a stored node without children returns nil and removes
\* exactly that node; every other row is unchanged.
C5_DeleteLeafRemoves ==
    (/\ last.op = "DeleteChildNode"
     /\ Exists(last.pre.dag, last.id)
     /\ ~HasChild(last.pre.dag, last.id)) =>
        /\ last.err = ErrNil
        /\ ~Exists(dag, last.id)
        /\ dag = {r \in last.pre.dag : r.id # last.id}

\* C6: DeleteSubtree of a stored node removes that node and its descendants and
\* nothing else.
C6_DeleteSubtreeRemoves ==
    (/\ last.op = "DeleteNodeAndDescendants"
     /\ Exists(last.pre.dag, last.id)) =>
        /\ ~Exists(dag, last.id)
        /\ dag = {r \in last.pre.dag :
                    r.id # last.id /\ r \notin Below(last.pre.dag, {last.id})}

\* C7: a delete (DeleteLeaf or DeleteSubtree) of an id that is not stored fails
\* with a not-found error and leaves the store as it was.
C7_DeleteAbsent ==
    (/\ last.op \in {"DeleteChildNode", "DeleteNodeAndDescendants"}
     /\ ~Exists(last.pre.dag, last.id)) =>
        IsNotFound(last.err) /\ StoreUnchanged

\* C8: the ancestors of a stored node are returned without error, nearest
\* parent first, root last, the node itself left out; for a root that is the
\* empty sequence.
C8_Ancestors ==
    (/\ last.op \in {"GetAncestors", "GetParents"}
     /\ Exists(dag, last.id)) =>
        /\ last.err = ErrNil
        /\ ReturnedIds = ChainUp(dag, last.id, Cardinality(dag))

\* C9: the descendants of a node are returned without error and are exactly the
\* nodes below it, the node itself left out.
C9_Descendants ==
    (/\ last.op \in {"GetDescendants", "GetDescendants_daggo"}
     /\ Exists(dag, last.id)) =>
        /\ last.err = ErrNil
        /\ Range(ReturnedIds) = IdsOf(Below(dag, {last.id}))
        /\ last.id \notin Range(ReturnedIds)

\* C10: rootOf of a stored node returns the node whose id is the target's
\* root_id; right after an AddChild(c, p) the contract obliges to succeed,
\* rootOf(c) returns the root of p.
C10_RootOf ==
    [][last'.op = "GetRootNode" =>
        /\ Exists(dag, last'.id) =>
              /\ last'.err = ErrNil
              /\ \E t \in dag : t.id = last'.id /\ last'.nodes[1].id = t.root_id
        /\ AfterAddChild(last'.id, last.parent) =>
              /\ last'.err = ErrNil
              /\ \E p \in last.pre.dag :
                    p.id = last.parent /\ last'.nodes[1].id = p.root_id]_vars

(***************************************************************************)
(* C11, C12, C20: invariants of the store built through the four mutations *)
(***************************************************************************)

\* C11: in every store reached from the empty one by AddRoot, AddChild,
\* DeleteLeaf and DeleteSubtree calls, failed ones included, the parent_id of
\* every row is NULL or the id of a stored row.
C11_ReferentialIntegrity ==
    \A r \in dag : r.parent_id.Valid => Exists(dag, r.parent_id.Int64)

\* A failed AddChild and earlier successful AddRoots: several rows are stored
\* and the last mutation was refused by a panic.
C11_Witness ==
    /\ last.op = "AddChildNode"
    /\ last.err = Panic
    /\ Cardinality(dag) >= 2
    /\ \A r \in dag : ~r.parent_id.Valid

\* The id at the top of the parent chain of id.
TopOf(tbl, id) ==
    LET chain == ChainUp(tbl, id, Cardinality(tbl))
    IN  IF chain = <<>> THEN id ELSE chain[Len(chain)]

\* C12: in every store reached from the empty one by the four mutations, the
\* root_id of every row is the id of the stored parentless row at the top of
\* its parent chain; for a root that is its own id.
C12_RootConsistency ==
    \A r \in dag :
        /\ r.root_id = TopOf(dag, r.id)
        /\ \E t \in dag : t.id = r.root_id /\ ~t.parent_id.Valid

\* Two roots were created, the second by the last call.
C12_Witness ==
    /\ last.op = "AddRootNode"
    /\ last.err = ErrNil
    /\ Cardinality(dag) >= 2
    /\ \E r \in dag : r.id = last.id /\ r.root_id = last.id

\* The ChildIDs DeleteChildNode would read for id: the lists of the DagNode
\* rows of that ID (none when there is no such row).
StoredChildIDs(id) ==
    UNION {Range(n.ChildIDs.Elems) : n \in {m \in DagNode : m.ID = id}}

\* C20: the persisted ChildIDs of every stored node holds exactly the ids of
\* the nodes whose parent it is; so right after an AddChild(c, p) the contract
\* obliges to succeed, c is in the ChildIDs of p.
C20_ChildIDsAgree ==
    /\ \A r \in dag :
          StoredChildIDs(r.id) =
              {k.id : k \in {q \in dag : q.parent_id.Valid /\ q.parent_id.Int64 = r.id}}
    /\ (/\ last.op = "AddChildNode"
        /\ ~Exists(last.pre.dag, last.id)
        /\ Exists(last.pre.dag, last.parent)) =>
           last.id \in StoredChildIDs(last.parent)

(***************************************************************************)
(* C14, C15, C16: a store that held rows before the connection             *)
(***************************************************************************)

\* C14: whenever DeleteLeaf or DeleteSubtree has returned, with success or
\* with any error, the transaction it began is committed or rolled back.
C14_TxReleased ==
    last.op \in {"DeleteChildNode", "DeleteNodeAndDescendants"} =>
        last.tx \in {TxCommitted, TxRolledBack}

\* C15: while descendantsOf(id) runs, on a cyclic store too, no row comes up
\* that the walk has already visited and the walk has taken no more hops than
\* there are rows.
C15_WalkVisitsOnce ==
    walk.pc = "running" =>
        /\ walk.work \cap walk.seen = {}
        /\ walk.hops <= Cardinality(dag)

\* The error the contract names for a walk that meets a parent cycle.
CycleDetected == "cycle detected"

\* The parent chain of id never ends: id lies on or leads into a cycle.
LeadsIntoCycle(tbl, id) ==
    Len(ChainUp(tbl, id, Cardinality(tbl) + 1)) = Cardinality(tbl) + 1

\* C16: ancestorsOf(id) on a node that lies on or leads into a parent cycle
\* fails with CycleDetected; it never returns a normal ancestor list.
C16_CycleDetected ==
    (/\ last.op \in {"GetAncestors", "GetParents"}
     /\ dag = last.pre.dag
     /\ LeadsIntoCycle(dag, last.id)) =>
        last.err = CycleDetected

(***************************************************************************)
(* C17: tree assembly                                                      *)
(***************************************************************************)

\* Exactly one node has no parent and the parent of every other is in the set.
SingleRootFullyReferenced(nodes) ==
    /\ Cardinality({m \in nodes : ~m.parent_id.Valid}) = 1
    /\ \A m \in nodes : m.parent_id.Valid => Exists(nodes, m.parent_id.Int64)

RECURSIVE LinkedBelow(_, _, _)
\* The ids reached from the ids in `from` through the derived children lists,
\* those in `seen` left out.
LinkedBelow(index, from, seen) ==
    LET kids == UNION {IdsOf(Range(index[i])) : i \in from} \ seen
    IN  IF kids = {} THEN seen ELSE LinkedBelow(index, kids, seen \cup kids)

\* The number of transitive derived children of the root of an assembled tree.
TransitiveChildren(out) == Cardinality(LinkedBelow(out.Nodes, {out.Root.id}, {}))

\* C17 as stated: assembling a single-root, fully-referenced node set succeeds
\* and the root has as many transitive children as the set has other nodes.
C17_AssembleValid ==
    (assembly.pc = "done" /\ SingleRootFullyReferenced(assembly.nodes)) =>
        /\ assembly.out.err = ErrNil
        /\ TransitiveChildren(assembly.out) = Cardinality(assembly.nodes) - 1

\* C17 amended: assembling a single-root, fully-referenced node set whose
\* parent relation is acyclic succeeds and the root has as many transitive
\* children as the set has other nodes.
C17_AssembleTree ==
    (/\ assembly.pc = "done"
     /\ SingleRootFullyReferenced(assembly.nodes)
     /\ \A m \in assembly.nodes : ~LeadsIntoCycle(assembly.nodes, m.id)) =>
        /\ assembly.out.err = ErrNil
        /\ TransitiveChildren(assembly.out) = Cardinality(assembly.nodes) - 1

\* A chain of three nodes was assembled: the root has two transitive children.
C17_Witness ==
    /\ assembly.pc = "done"
    /\ Cardinality(assembly.nodes) = 3
    /\ SingleRootFullyReferenced(assembly.nodes)
    /\ \A m \in assembly.nodes : ~LeadsIntoCycle(assembly.nodes, m.id)
    /\ \E m \in assembly.nodes : Len(ChainUp(assembly.nodes, m.id, 3)) = 2
    /\ assembly.out.err = ErrNil
    /\ TransitiveChildren(assembly.out) = 2

(***************************************************************************)
(* Two clients of one store: a call statement by statement, and the calls  *)
(* of another client between its statements                                *)
(***************************************************************************)

ErrAddRoot == "failed to add root node"
ErrAddChild == "failed to add child node"
ErrDelete == "failed to delete node and descendants"
ErrCommit == "failed to commit transaction"

\* The forests among the stores held at connection: every parent_id names a
\* stored row and no parent chain runs in a circle.
InitConc ==
    /\ dag \in {S \in DagStores(MaxStored) :
                  /\ NoCteLoop(S)
                  /\ \A r \in S : r.parent_id.Valid =>
                        /\ Exists(S, r.parent_id.Int64)
                        /\ Len(ChainUp(S, r.id, Cardinality(S))) < Cardinality(S)}
    /\ DagNode = {}
    /\ last = [op |-> "NewDaggo", id |-> NoArg, parent |-> NoArg, err |-> ErrNil,
               nodes |-> <<>>, tx |-> TxNone,
               pre |-> [dag |-> dag, DagNode |-> {}]]
    /\ walk = WalkIdle
    /\ inflight = InflightIdle
    /\ assembly = AssemblyIdle

\* The call in progress: where it is, its arguments, the store its existence
\* check read (seen), the RootID it took from parentNode and the rows its
\* uncommitted DELETE has removed (pending).
Inflight(pc, op, id, parent, seen, rootID, pending) ==
    [pc |-> pc, op |-> op, id |-> id, parent |-> parent, seen |-> seen,
     rootID |-> rootID, pending |-> pending]

\* The call in progress returns.
Return(err, tx) ==
    /\ last' = Call(inflight.op, inflight.id, inflight.parent, err, <<>>, tx)
    /\ inflight' = InflightIdle

BeginAddRootNode ==
    /\ inflight.pc = "idle"
    /\ \E id \in Ids :
          inflight' = Inflight("check", "AddRootNode", id, NoArg, {}, NoArg, {})
    /\ UNCHANGED <<dag, DagNode, last, walk, assembly>>

BeginAddChildNode ==
    /\ inflight.pc = "idle"
    /\ \E id \in Ids, parentID \in Ids :
          inflight' = Inflight("check", "AddChildNode", id, parentID, {}, NoArg, {})
    /\ UNCHANGED <<dag, DagNode, last, walk, assembly>>

\* d.db.Beginx() (line 250).
BeginDeleteNodeAndDescendants ==
    /\ inflight.pc = "idle"
    /\ \E id \in Ids :
          inflight' = Inflight("exec", "DeleteNodeAndDescendants", id, NoArg, {}, NoArg, {})
    /\ UNCHANGED <<dag, DagNode, last, walk, assembly>>

\* existingNode, err := d.GetNodeByID(id) and the test of existingNode.
StepCheck ==
    /\ inflight.pc = "check"
    /\ \E existingNode \in GetNodeByID(dag, inflight.id) :
          IF existingNode # <<>>
            THEN Return(ErrAlreadyExists, TxNone)
            ELSE /\ inflight' = [inflight EXCEPT
                                   !.pc = IF inflight.op = "AddChildNode"
                                            THEN "lookup" ELSE "insert",
                                   !.seen = dag]
                 /\ UNCHANGED last
    /\ UNCHANGED <<dag, DagNode, walk, assembly>>

\* parentNode, err := d.GetParentNode(parentID); rootID := parentNode.RootID.
StepLookup ==
    /\ inflight.pc = "lookup"
    /\ \E parentNode \in GetParentNode(dag, inflight.parent) :
          IF parentNode = <<>>
            THEN Return(Panic, TxNone)
            ELSE /\ inflight' = [inflight EXCEPT !.pc = "insert",
                                                 !.rootID = parentNode[1].root_id]
                 /\ UNCHANGED last
    /\ UNCHANGED <<dag, DagNode, walk, assembly>>

\* d.db.Exec(INSERT INTO dag ...). The repository holds no schema: when a row
\* of this id has been stored since the check, the store either refuses the
\* statement (a key on id) or keeps a second row of that id (no key).
StepInsert ==
    /\ inflight.pc = "insert"
    /\ LET row == IF inflight.op = "AddChildNode"
                    THEN DagRow(inflight.id, ValidInt64(inflight.parent), inflight.rootID)
                    ELSE DagRow(inflight.id, NullInt64, inflight.id)
           same == {r \in dag : r.id = inflight.id}
       IN  IF same = {}
             THEN dag' = dag \cup {row} /\ Return(ErrNil, TxNone)
             ELSE \/ /\ dag' = dag
                     /\ Return(IF inflight.op = "AddChildNode"
                                 THEN ErrAddChild ELSE ErrAddRoot, TxNone)
                  \/ /\ dag' = dag \cup {[row EXCEPT !.ctid = Cardinality(same)]}
                     /\ Return(ErrNil, TxNone)
    /\ UNCHANGED <<DagNode, walk, assembly>>

\* tx.Exec(the recursive DELETE): the rows it removes stay stored for every
\* other client until the commit; or the statement fails, err is set and the
\* deferred function rolls back.
StepExec ==
    /\ inflight.pc = "exec"
    /\ \/ /\ inflight' = [inflight EXCEPT !.pc = "commit",
                                          !.pending = DeletedRows(dag, inflight.id)]
          /\ UNCHANGED last
       \/ Return(ErrDelete, TxRolledBack)
    /\ UNCHANGED <<dag, DagNode, walk, assembly>>

\* tx.Commit(): the removal becomes visible at once; or the commit fails and
\* nothing is removed.
StepCommit ==
    /\ inflight.pc = "commit"
    /\ \/ dag' = dag \ inflight.pending /\ Return(ErrNil, TxCommitted)
       \/ dag' = dag /\ Return(ErrCommit, TxRolledBack)
    /\ UNCHANGED <<DagNode, walk, assembly>>

\* The other client's calls, each between two statements of the call in
\* progress.
CallOther ==
    \/ CallAddRootNode
    \/ CallDeleteChildNode
    \/ CallDeleteNodeAndDescendants
    \/ CallGetNodeByID

NextConc ==
    \/ BeginAddRootNode
    \/ BeginAddChildNode
    \/ BeginDeleteNodeAndDescendants
    \/ StepCheck
    \/ StepLookup
    \/ StepInsert
    \/ StepExec
    \/ StepCommit
    \/ CallOther

SpecConc == InitConc /\ [][NextConc]_vars

(***************************************************************************)
(* C13, C18, C19: concurrent clients                                       *)
(***************************************************************************)

C19_UniqueIds ==
    /\ \A a, b \in dag : a.id = b.id => a = b
    /\ (/\ last.op \in {"AddRootNode", "AddChildNode"}
        /\ Exists(last.pre.dag, last.id)) =>
           last.err = ErrAlreadyExists

====
